---- MODULE Spec2Model ----
(***************************************************************************)
(* Execution orchestration and safety engine of the computer-use agent:    *)
(* ExecutionManager (main thread), ExecutionWorker (one QThread per plan), *)
(* SafetyController (risk assessment) and the outcome of                   *)
(* AutomationEngine._execute_single_action.                                *)
(*                                                                         *)
(* Indices are 0-based as in the Python code: action i of a plan is        *)
(* plan[i + 1] of the TLA+ sequence.                                       *)
(***************************************************************************)
EXTENDS Integers, Sequences, FiniteSets, TLC

(* ---------------------------- bounds ----------------------------------- *)
MaxPlanLen == 2      \* longest action plan handed to execute_action_plan
MaxRetriesCfg == 1   \* largest ExecutionConfig.max_retries drawn in Init
MaxWorkers == 3      \* ExecutionWorker objects constructed in one run (SpecMgr)
MaxStarts == 2       \* ExecutionWorker objects constructed in one run (SpecStart)
MaxAssessments == 2  \* largest total_actions counted before reset_stats (SpecSafety, SpecStats)

(* --------------------------- RiskLevel --------------------------------- *)
\* list(RiskLevel).index(x): the ordinal used for the maximum
LOW == 0
MEDIUM == 1
HIGH == 2
CRITICAL == 3

RiskLevel == {LOW, MEDIUM, HIGH, CRITICAL}

(* ----------------------------- state ----------------------------------- *)
VARIABLES
  config,          \* ExecutionManager.config
  safety,          \* SafetyController configuration (shared by all workers)
  workers,         \* the ExecutionWorker objects constructed so far
  current_worker,  \* ExecutionManager.current_worker (0 is None)
  mpc,             \* main thread: "idle", or "stop_wait" inside stop_execution
  sigq,            \* execution_completed signals queued to the main thread
  callbacks,       \* confirm_callbacks handed out and not yet invoked
  safety_rules,    \* SafetyController.safety_rules, each rule with its enabled flag
  execution_stats, \* SafetyController.execution_stats
  assessing,       \* a caller inside assess_action_safety, between its counter updates
  assessment,      \* the SafetyAssessment assess_action_safety returned last
  stats_read,      \* the dict get_execution_stats returned last
  current_task_id,        \* ExecutionManager.current_task_id (0 is None)
  original_user_command,  \* ExecutionManager.original_user_command
  previous_claude_output, \* ExecutionManager.previous_claude_output
  ui_elements_map, \* AutomationEngine.ui_elements_map
  engine_result,   \* the ExecutionResult _execute_single_action returned last
  validation_report \* the ValidationReport validate_action_result returned last

\* SafetyController state besides its configuration
assessment_vars == << safety_rules, execution_stats, assessing, assessment, stats_read >>

\* what execute_action_plan stores about the task
task_vars == << current_task_id, original_user_command, previous_claude_output, ui_elements_map >>

\* the values the engine and the validator returned last
function_vars == << engine_result, validation_report >>

vars == << config, safety, workers, current_worker, mpc, sigq, callbacks,
           assessment_vars, task_vars, function_vars >>

(* --------------------------- SafetyRule -------------------------------- *)
\* The built-in rules: name, risk level, the action types they apply to.
\* A rule's regular expression is represented by its name: an action text
\* carries the set of rule names whose pattern it matches. The last rule is
\* the screen-edge rule, which is evaluated from the coordinates.
SafetyRules ==
  << [name |-> "file_delete", risk_level |-> HIGH, applies_to |-> {"key", "type"}, enabled |-> TRUE],
     [name |-> "format", risk_level |-> CRITICAL, applies_to |-> {"key", "type"}, enabled |-> TRUE],
     [name |-> "shutdown", risk_level |-> HIGH, applies_to |-> {"key", "type"}, enabled |-> TRUE],
     [name |-> "password", risk_level |-> MEDIUM, applies_to |-> {"type"}, enabled |-> TRUE],
     [name |-> "admin", risk_level |-> HIGH, applies_to |-> {"key", "type"}, enabled |-> TRUE],
     [name |-> "network", risk_level |-> MEDIUM, applies_to |-> {"type", "key"}, enabled |-> TRUE],
     [name |-> "privacy", risk_level |-> MEDIUM, applies_to |-> {"click", "key"}, enabled |-> TRUE],
     [name |-> "install", risk_level |-> MEDIUM, applies_to |-> {"click", "type"}, enabled |-> TRUE],
     [name |-> "payment", risk_level |-> CRITICAL, applies_to |-> {"click", "type"}, enabled |-> TRUE],
     [name |-> "credit_card", risk_level |-> CRITICAL, applies_to |-> {"type"}, enabled |-> TRUE],
     [name |-> "registry", risk_level |-> HIGH, applies_to |-> {"type", "key"}, enabled |-> TRUE],
     [name |-> "system_files", risk_level |-> HIGH, applies_to |-> {"type", "click"}, enabled |-> TRUE],
     [name |-> "danger_hotkey", risk_level |-> MEDIUM, applies_to |-> {"key", "hotkey"}, enabled |-> TRUE],
     [name |-> "screen_edge_click", risk_level |-> LOW, applies_to |-> {"click", "double_click", "right_click"}, enabled |-> TRUE] >>

\* str.lower() on the action types in use
lower(action_type) ==
  CASE action_type = "Type" -> "type"
    [] action_type = "Key" -> "key"
    [] OTHER -> action_type

\* _check_text_safety: the enabled rules, in registry order, that apply to
\* the action type and whose pattern the text matches.
RECURSIVE CheckFrom(_, _, _)
CheckFrom(k, matches, action_type) ==
  IF k > Len(safety_rules) THEN << >>
  ELSE LET rule == safety_rules[k]
           rest == CheckFrom(k + 1, matches, action_type)
       IN IF rule.enabled /\ action_type \in rule.applies_to /\ rule.name \in matches
          THEN << rule >> \o rest
          ELSE rest

_check_text_safety(matches, action_type) == CheckFrom(1, matches, action_type)

\* _check_coordinate_safety: for coordinates within the edge threshold, the
\* first rule with the screen-edge pattern that applies to the action type
RECURSIVE EdgeRuleFrom(_, _)
EdgeRuleFrom(k, action_type) ==
  IF k > Len(safety_rules) THEN << >>
  ELSE IF safety_rules[k].name = "screen_edge_click"
          /\ action_type \in safety_rules[k].applies_to
       THEN << safety_rules[k] >>
       ELSE EdgeRuleFrom(k + 1, action_type)

_check_coordinate_safety(action) ==
  IF action.edge THEN EdgeRuleFrom(1, action.type) ELSE << >>

\* assess_action_safety: the rules the checks of one action trigger
triggered_by(action) ==
  _check_text_safety(action.matches, action.type) \o _check_coordinate_safety(action)

\* mutant: the level of the first triggered rule instead of the maximum
max_risk_level_first(triggered_rules) ==
  IF triggered_rules = << >> THEN LOW ELSE triggered_rules[1].risk_level

\* max(risk_levels, key = ordinal), LOW when nothing is triggered
RECURSIVE MaxRiskFrom(_, _, _)
MaxRiskFrom(rules, k, best) ==
  IF k > Len(rules) THEN best
  ELSE MaxRiskFrom(rules, k + 1,
                   IF rules[k].risk_level > best THEN rules[k].risk_level ELSE best)

max_risk_level(triggered_rules) == MaxRiskFrom(triggered_rules, 1, LOW)

\* SafetyController.__init__: the configuration switches the assessment reads
SafetyConfigs ==
  [require_confirmation_for_medium : BOOLEAN,
   block_high_risk : BOOLEAN,
   block_critical_risk : BOOLEAN]

\* mutant: CRITICAL falls through without a confirmation
_requires_confirmation_not_critical(risk_level, sc) ==
  IF risk_level = LOW THEN FALSE
  ELSE IF risk_level = MEDIUM THEN sc.require_confirmation_for_medium
  ELSE IF risk_level = HIGH THEN TRUE
  ELSE FALSE

_requires_confirmation(risk_level, sc) ==
  IF risk_level = LOW THEN FALSE
  ELSE IF risk_level = MEDIUM THEN sc.require_confirmation_for_medium
  ELSE TRUE

\* mutant: the block_high_risk policy is not applied
_should_block_execution_critical_only(risk_level, sc) ==
  risk_level = CRITICAL /\ sc.block_critical_risk

_should_block_execution(risk_level, sc) ==
  IF risk_level = CRITICAL /\ sc.block_critical_risk THEN TRUE
  ELSE IF risk_level = HIGH /\ sc.block_high_risk THEN TRUE
  ELSE FALSE

\* mutant: an assessment that raises is treated as an action without findings
assess_action_safety_unsafe(action, sc) ==
  LET triggered_rules == IF action.fault THEN << >> ELSE triggered_by(action)
      risk == max_risk_level(triggered_rules)
  IN [risk_level |-> risk, triggered_rules |-> triggered_rules,
      requires_confirmation |-> _requires_confirmation(risk, sc),
      block_execution |-> _should_block_execution(risk, sc),
      warning |-> triggered_rules # << >>]

\* The SafetyAssessment of one action under safety configuration sc.
\* action.fault: an internal step of the assessment raises.
\* warning: whether warning_message is non-empty.
assess_action_safety(action, sc) ==
  IF action.fault
  THEN [risk_level |-> HIGH, triggered_rules |-> << >>,
        requires_confirmation |-> TRUE, block_execution |-> FALSE,
        warning |-> TRUE]
  ELSE LET triggered_rules == triggered_by(action)
           risk == max_risk_level(triggered_rules)
       IN [risk_level |-> risk, triggered_rules |-> triggered_rules,
           requires_confirmation |-> _requires_confirmation(risk, sc),
           block_execution |-> _should_block_execution(risk, sc),
           warning |-> triggered_rules # << >>]

\* SafetyController.__init__ / reset_stats: the counters at zero
ZeroStats ==
  [total_actions |-> 0, blocked_actions |-> 0,
   confirmed_actions |-> 0, auto_executed_actions |-> 0]

\* assess_action_safety: execution_stats['total_actions'] += 1
count_total(stats) == [stats EXCEPT !.total_actions = @ + 1]

\* assess_action_safety: the counter of the assessment's outcome += 1
count_outcome(stats, sa) ==
  IF sa.block_execution THEN [stats EXCEPT !.blocked_actions = @ + 1]
  ELSE IF sa.requires_confirmation THEN [stats EXCEPT !.confirmed_actions = @ + 1]
  ELSE [stats EXCEPT !.auto_executed_actions = @ + 1]

(* --------------------------- ActionPlan -------------------------------- *)
\* The actions drawn for plans: type, the rule patterns the description/text
\* matches, whether the coordinates lie within the edge threshold of the
\* screen, and whether assessing it raises.
ActionClick  == [type |-> "click", matches |-> {},           edge |-> FALSE, fault |-> FALSE]
ActionKey    == [type |-> "key",   matches |-> {},           edge |-> FALSE, fault |-> FALSE]
ActionPwd    == [type |-> "type",  matches |-> {"password"}, edge |-> FALSE, fault |-> FALSE]
ActionFormat == [type |-> "key",   matches |-> {"format"},   edge |-> FALSE, fault |-> FALSE]
ActionFault  == [type |-> "click", matches |-> {},           edge |-> FALSE, fault |-> TRUE]

Actions == {ActionClick, ActionKey, ActionPwd, ActionFormat, ActionFault}

Plans == UNION {[1..n -> Actions] : n \in 0..MaxPlanLen}

(* ------------------------ ExecutionStatus ------------------------------ *)
ExecutionMode == {"manual", "semi_auto", "full_auto", "step_by_step"}

\* ExecutionManager.__init__ / update_config: the safety configuration the
\* manager derives from an ExecutionConfig
safety_config(cfg) ==
  [require_confirmation_for_medium |-> cfg.confirm_dangerous_actions,
   block_high_risk |-> FALSE,
   block_critical_risk |-> TRUE]

\* the configurations drawn in Init; max_retries is read only under auto_retry
ExecutionConfigs ==
  {cfg \in [mode : ExecutionMode, confirm_dangerous_actions : BOOLEAN,
            strict_mode : BOOLEAN, auto_retry : BOOLEAN, max_retries : 0..MaxRetriesCfg] :
     cfg.auto_retry \/ cfg.max_retries = MaxRetriesCfg}

\* ExecutionConfig(): the dataclass defaults
DefaultConfig ==
  [mode |-> "semi_auto", confirm_dangerous_actions |-> TRUE,
   strict_mode |-> FALSE, auto_retry |-> TRUE, max_retries |-> MaxRetriesCfg]

\* ResultValidator reports, and "raise" when validate_action_result raises
ValidationReports == {"success", "partial", "failed", "timeout", "error", "raise"}

\* mutant: a PARTIAL report fails the action
_execute_single_action_partial_fails(success, report) ==
  IF success
  THEN IF report = "success" THEN "SUCCESS"
       ELSE IF report = "raise" THEN "SUCCESS"
       ELSE "FAILED"
  ELSE "FAILED"

\* AutomationEngine._execute_single_action: the ExecutionResult status from the
\* raw executor outcome (success of _dispatch_action) and the validation report
_execute_single_action(success, report) ==
  IF success
  THEN IF report = "success" THEN "SUCCESS"
       ELSE IF report = "partial" THEN "SUCCESS"
       ELSE IF report = "raise" THEN "SUCCESS"
       ELSE "FAILED"
  ELSE "FAILED"

(* ----------------------------- state ----------------------------------- *)
Worker(w) == workers[w]
WorkerIds == DOMAIN workers

\* QThread.isRunning()
isRunning(w) == workers[w].pc \notin {"done", "raised", "terminated"}

\* ExecutionManager.is_executing
is_executing ==
  current_worker # 0 /\ isRunning(current_worker)

\* no TaskExecutionResult has been computed yet
NoResult ==
  [total_actions |-> 0, completed_actions |-> 0, success_rate |-> [num |-> 0, den |-> 1],
   status |-> "None", action_results |-> << >>, final_error |-> FALSE]

\* ExecutionWorker.__init__
NewWorker(action_plan, cfg) ==
  [action_plan |-> action_plan,
   config |-> cfg,
   should_stop |-> FALSE,
   is_paused |-> FALSE,
   waiting_for_confirmation |-> FALSE,
   confirmation_result |-> "None",
   retry_counts |-> << >>,
   \* position and locals of run()
   pc |-> "start",
   i |-> 0,
   action_results |-> << >>,
   retry_count |-> 0,
   status |-> "PENDING",
   elapsed |-> FALSE,       \* time.time() - start_time >= timeout in the gate
   result |-> NoResult,     \* the TaskExecutionResult, once computed
   \* history
   assessments |-> << >>,   \* SafetyAssessment of each assessed action
   needs |-> << >>,         \* needs_confirmation of each assessed action
   dispatched |-> << >>,    \* index of every call of _execute_single_action
   outcomes |-> << >>,      \* status each of those calls returned
   emitted |-> << >>,       \* signals emitted by the worker, in order
   confirmed_in_wait |-> FALSE, \* confirm_action(True) arrived in this wait
   stop_after_last |-> FALSE,   \* stop() arrived after the last action succeeded
   stop_before_dispatch |-> FALSE, \* stop() arrived before any dispatch, the task running
   stopped_in_wait |-> FALSE,   \* stop() arrived inside the confirmation wait loop
   own_response |-> FALSE,      \* the callback of this request was invoked with True in this wait
   gate_end |-> "None"]         \* how the last confirmation request ended

Emit(r, sig, idx) == Append(r.emitted, [sig |-> sig, idx |-> idx])

Put(w, r) == workers' = [workers EXCEPT ![w] = r]

(* ----------------------- ExecutionWorker.run ---------------------------- *)
\* _should_confirm_action: needs_confirmation from the assessment, the mode
\* and the action type
\* mutant: FULL_AUTO confirms every action
_should_confirm_action_always(action, cfg, sa) == TRUE

_should_confirm_action(action, cfg, sa) ==
  IF sa.block_execution THEN TRUE
  ELSE IF cfg.mode = "full_auto" THEN sa.requires_confirmation
  ELSE IF cfg.mode = "manual" THEN TRUE
  ELSE IF cfg.mode = "step_by_step" THEN TRUE
  ELSE IF cfg.mode = "semi_auto"
       THEN sa.requires_confirmation
            \/ (lower(action.type) \in {"drag", "key", "hotkey"} /\ cfg.confirm_dangerous_actions)
  ELSE FALSE

\* mutant: the timeout check after the wait loop is missing
confirmation_outcome_no_timeout(r) ==
  IF r.should_stop THEN FALSE
  ELSE r.confirmation_result = "True"

\* mutant: should_stop is not looked at after the wait loop
confirmation_outcome_ignores_stop(r) ==
  IF r.elapsed THEN FALSE
  ELSE r.confirmation_result = "True"

\* mutant: a request that timed out counts as approved
confirmation_outcome_timeout_approves(r) ==
  IF r.should_stop THEN FALSE
  ELSE IF r.elapsed THEN TRUE
  ELSE r.confirmation_result = "True"

\* mutant: an explicit decline counts as approved
confirmation_outcome_decline_approves(r) ==
  IF r.should_stop THEN FALSE
  ELSE IF r.elapsed THEN FALSE
  ELSE r.confirmation_result \in {"True", "False"}

\* _request_confirmation, after the wait loop: the value returned
confirmation_outcome(r) ==
  IF r.should_stop THEN FALSE
  ELSE IF r.elapsed THEN FALSE
  ELSE r.confirmation_result = "True"

\* _execute_with_retry: max_retries = config.max_retries if auto_retry else 0
effective_max_retries(cfg) == IF cfg.auto_retry THEN cfg.max_retries ELSE 0

\* mutant: the retry loop does not stop at a SUCCESS
retry_break_ignores_success(status, cfg) == ~cfg.auto_retry

\* _execute_with_retry, after one attempt returned `status`: does the loop break
retry_break(status, cfg) == status = "SUCCESS" \/ ~cfg.auto_retry

\* _execute_with_retry: the retry loop's condition
retry_loop_condition(retry_count, cfg) == retry_count <= effective_max_retries(cfg)

\* mutant: every recorded result counts as completed
CountSuccess_all(results) == Len(results)

\* run(): completed = number of results with status SUCCESS
RECURSIVE CountSuccess(_)
CountSuccess(results) ==
  IF results = << >> THEN 0
  ELSE (IF Head(results).status = "SUCCESS" THEN 1 ELSE 0) + CountSuccess(Tail(results))

\* mutant: a plan whose actions all succeeded is SUCCESS whatever the stop flag
overall_status_success_first(should_stop, completed, total) ==
  IF completed = total THEN "SUCCESS"
  ELSE IF should_stop THEN "CANCELLED"
  ELSE "FAILED"

\* mutant: a plan of which some actions succeeded counts as SUCCESS
overall_status_partial_success(should_stop, completed, total) ==
  IF should_stop THEN "CANCELLED"
  ELSE IF completed = total THEN "SUCCESS"
  ELSE IF completed = 0 THEN "FAILED"
  ELSE "SUCCESS"

\* run(): the overall status of the task
overall_status(should_stop, completed, total) ==
  IF should_stop THEN "CANCELLED"
  ELSE IF completed = total THEN "SUCCESS"
  ELSE IF completed = 0 THEN "FAILED"
  ELSE "FAILED"

\* run(): success_rate = completed / len(action_plan) if action_plan else 0,
\* kept as the fraction num / den
success_rate(completed, total) ==
  IF total # 0 THEN [num |-> completed, den |-> total] ELSE [num |-> 0, den |-> 1]

\* mutant: the loop does not advance to the next action
next_index_repeats(i) == i

\* run(): for i, action in enumerate(self.action_plan)
next_index(i) == i + 1

\* mutant: strict mode is not applied
strict_halt_never(status, cfg) == FALSE

\* run(): the strict-mode halt after an action's result is recorded
strict_halt(status, cfg) == status = "FAILED" /\ cfg.strict_mode

\* run() begins: execution_started is emitted, the loop starts at action 0
Run_Start(w) ==
  LET r == Worker(w) IN
  /\ r.pc = "start"
  /\ Put(w, [r EXCEPT !.pc = "loop_top", !.i = 0,
                      !.emitted = Emit(r, "execution_started", 0)])
  /\ UNCHANGED << assessment_vars, task_vars, function_vars, config, safety, current_worker, mpc, sigq, callbacks >>

\* top of the for loop: the plan is exhausted, or should_stop breaks
Run_LoopTop(w) ==
  LET r == Worker(w) IN
  /\ r.pc = "loop_top"
  /\ Put(w, [r EXCEPT !.pc = IF r.i >= Len(r.action_plan) \/ r.should_stop
                             THEN "finalize" ELSE "pause"])
  /\ UNCHANGED << assessment_vars, task_vars, function_vars, config, safety, current_worker, mpc, sigq, callbacks >>

\* mutant: the worker never waits while paused
pause_loop_never(r) == FALSE

\* the condition of the pause loop: while self.is_paused and not self.should_stop
pause_loop(r) == r.is_paused /\ ~r.should_stop

\* the pause loop (msleep while is_paused and not should_stop) and the
\* should_stop check after it
Run_Pause(w) ==
  LET r == Worker(w) IN
  /\ r.pc = "pause"
  /\ ~pause_loop(r)
  /\ Put(w, [r EXCEPT !.pc = IF r.should_stop THEN "finalize" ELSE "assess"])
  /\ UNCHANGED << assessment_vars, task_vars, function_vars, config, safety, current_worker, mpc, sigq, callbacks >>

\* needs_confirmation, message = _should_confirm_action(action, i)
Run_Assess(w) ==
  LET r == Worker(w)
      action == r.action_plan[r.i + 1]
      sa == assess_action_safety(action, safety)
      needs_confirmation == _should_confirm_action(action, r.config, sa)
  IN
  /\ r.pc = "assess"
  /\ Put(w, [r EXCEPT !.pc = IF needs_confirmation THEN "request" ELSE "retry_loop",
                      !.retry_count = 0,
                      !.assessments = Append(r.assessments, sa),
                      !.needs = Append(r.needs, needs_confirmation)])
  /\ execution_stats' = IF action.fault THEN execution_stats
                        ELSE count_outcome(count_total(execution_stats), sa)
  /\ UNCHANGED << safety_rules, assessing, assessment, stats_read, task_vars, function_vars,
                  config, safety, current_worker, mpc, sigq, callbacks >>

\* _request_confirmation up to the wait loop
Run_RequestConfirmation(w) ==
  LET r == Worker(w) IN
  /\ r.pc = "request"
  /\ Put(w, [r EXCEPT !.pc = "wait_conf",
                      !.waiting_for_confirmation = TRUE,
                      !.confirmation_result = "None",
                      !.elapsed = FALSE,
                      !.confirmed_in_wait = FALSE,
                      !.own_response = FALSE,
                      !.emitted = Emit(r, "confirmation_requested", r.i)])
  /\ callbacks' = Append(callbacks, [worker |-> w, idx |-> r.i])
  /\ UNCHANGED << assessment_vars, task_vars, function_vars, config, safety, current_worker, mpc, sigq >>

\* 30 s pass since the confirmation was requested
Run_ConfirmationTimeout(w) ==
  LET r == Worker(w) IN
  /\ r.pc \in {"wait_conf", "conf_check"}
  /\ ~r.elapsed
  /\ Put(w, [r EXCEPT !.elapsed = TRUE])
  /\ UNCHANGED << assessment_vars, task_vars, function_vars, config, safety, current_worker, mpc, sigq, callbacks >>

\* the wait loop of _request_confirmation ends
Run_WaitConfirmation(w) ==
  LET r == Worker(w) IN
  /\ r.pc = "wait_conf"
  /\ ~(r.waiting_for_confirmation /\ ~r.should_stop /\ ~r.elapsed)
  /\ Put(w, [r EXCEPT !.pc = "conf_check"])
  /\ UNCHANGED << assessment_vars, task_vars, function_vars, config, safety, current_worker, mpc, sigq, callbacks >>

\* how _request_confirmation ended: by stop(), by the timeout with or without
\* a response that came too late, or by the response
gate_ending(r) ==
  IF r.should_stop THEN "stopped"
  ELSE IF r.elapsed
       THEN (IF r.confirmation_result = "None" THEN "timeout" ELSE "timeout_late_response")
  ELSE IF r.confirmation_result = "True" THEN "approved"
  ELSE "declined"

\* _request_confirmation returns; run() breaks when it returns False
Run_ConfirmationResult(w) ==
  LET r == Worker(w) IN
  /\ r.pc = "conf_check"
  /\ Put(w, [r EXCEPT !.pc = IF confirmation_outcome(r) THEN "retry_loop" ELSE "finalize",
                      !.gate_end = gate_ending(r)])
  /\ UNCHANGED << assessment_vars, task_vars, function_vars, config, safety, current_worker, mpc, sigq, callbacks >>

\* _execute_with_retry, head of the while loop: action_started is emitted and
\* engine._execute_single_action is called
Retry_Dispatch(w) ==
  LET r == Worker(w) IN
  /\ r.pc = "retry_loop"
  /\ Put(w, IF retry_loop_condition(r.retry_count, r.config)
            THEN [r EXCEPT !.pc = "exec",
                           !.dispatched = Append(r.dispatched, r.i),
                           !.emitted = Emit(r, "action_started", r.i)]
            ELSE [r EXCEPT !.pc = "record"])
  /\ UNCHANGED << assessment_vars, task_vars, function_vars, config, safety, current_worker, mpc, sigq, callbacks >>

\* engine._execute_single_action returns; break, or count a retry
Retry_Return(w, success, report) ==
  LET r == Worker(w)
      status == _execute_single_action(success, report)
  IN
  /\ r.pc = "exec"
  /\ Put(w, IF retry_break(status, r.config)
            THEN [r EXCEPT !.pc = "record", !.status = status,
                           !.outcomes = Append(r.outcomes, status)]
            ELSE [r EXCEPT !.status = status,
                           !.outcomes = Append(r.outcomes, status),
                           !.retry_count = r.retry_count + 1,
                           !.pc = IF retry_loop_condition(r.retry_count + 1, r.config)
                                  THEN "retry_sleep" ELSE "record"])
  /\ UNCHANGED << assessment_vars, task_vars, function_vars, config, safety, current_worker, mpc, sigq, callbacks >>

\* msleep(1000) between attempts
Retry_Sleep(w) ==
  LET r == Worker(w) IN
  /\ r.pc = "retry_sleep"
  /\ Put(w, [r EXCEPT !.pc = "retry_loop"])
  /\ UNCHANGED << assessment_vars, task_vars, function_vars, config, safety, current_worker, mpc, sigq, callbacks >>

\* _execute_with_retry records the retry count and returns; run() appends the
\* result, emits action_completed and applies strict mode
Run_Record(w) ==
  LET r == Worker(w)
      counts == IF r.retry_count > 0
                THEN [k \in DOMAIN r.retry_counts \cup {r.i} |->
                        IF k = r.i THEN r.retry_count ELSE r.retry_counts[k]]
                ELSE r.retry_counts
  IN
  /\ r.pc = "record"
  /\ Put(w, [r EXCEPT !.retry_counts = counts,
                      !.action_results = Append(r.action_results,
                                                [action_index |-> r.i, status |-> r.status]),
                      !.emitted = Emit(r, "action_completed", r.i),
                      !.pc = IF strict_halt(r.status, r.config) THEN "finalize" ELSE "loop_top",
                      !.i = IF strict_halt(r.status, r.config) THEN r.i ELSE next_index(r.i)])
  /\ UNCHANGED << assessment_vars, task_vars, function_vars, config, safety, current_worker, mpc, sigq, callbacks >>

\* after the loop: the TaskExecutionResult is computed and execution_completed
\* is emitted (queued to the main thread); the thread ends
Run_Finalize(w) ==
  LET r == Worker(w)
      completed == CountSuccess(r.action_results)
      final_result == [total_actions |-> Len(r.action_plan),
                       completed_actions |-> completed,
                       success_rate |-> success_rate(completed, Len(r.action_plan)),
                       status |-> overall_status(r.should_stop, completed, Len(r.action_plan)),
                       action_results |-> r.action_results,
                       final_error |-> FALSE]
  IN
  /\ r.pc = "finalize"
  /\ Put(w, [r EXCEPT !.pc = "done", !.result = final_result,
                      !.emitted = Emit(r, "execution_completed", 0)])
  /\ sigq' = Append(sigq, w)
  /\ UNCHANGED << assessment_vars, task_vars, function_vars, config, safety, current_worker, mpc, callbacks >>

\* an exception reaches the handler of run(): error_occurred is emitted, no
\* TaskExecutionResult is built and the thread ends. The exception is raised
\* while the action is examined, before the confirmation gate.
Run_Exception(w) ==
  LET r == Worker(w) IN
  /\ r.pc = "assess"
  /\ Put(w, [r EXCEPT !.pc = "raised", !.emitted = Emit(r, "error_occurred", 0)])
  /\ UNCHANGED << assessment_vars, task_vars, function_vars, config, safety, current_worker, mpc, sigq, callbacks >>

(* ------------------ ExecutionWorker entry points ----------------------- *)
\* every action of the plan has a recorded result and all are SUCCESS
AllSucceeded(r) ==
  /\ Len(r.action_results) = Len(r.action_plan)
  /\ \A k \in DOMAIN r.action_results : r.action_results[k].status = "SUCCESS"

\* ExecutionWorker.pause
pause(r) == [r EXCEPT !.is_paused = TRUE]

\* ExecutionWorker.resume
resume(r) == [r EXCEPT !.is_paused = FALSE]

\* ExecutionWorker.stop
stop(r) ==
  [r EXCEPT !.should_stop = TRUE,
            !.is_paused = FALSE,
            !.waiting_for_confirmation = FALSE,
            !.stop_after_last = r.stop_after_last \/ (AllSucceeded(r) /\ r.pc # "done"),
            !.stop_before_dispatch = r.stop_before_dispatch
                                       \/ (r.dispatched = << >> /\ r.pc \notin {"done", "raised"}),
            !.stopped_in_wait = r.stopped_in_wait \/ r.pc = "wait_conf"]

\* ExecutionWorker.confirm_action
confirm_action(r, confirmed) ==
  [r EXCEPT !.confirmation_result = IF confirmed THEN "True" ELSE "False",
            !.waiting_for_confirmation = FALSE,
            !.confirmed_in_wait = r.confirmed_in_wait \/ (confirmed /\ r.pc = "wait_conf")]

(* ------------------------- ExecutionManager ---------------------------- *)
\* str(elem.id) for the element ids in use
str(id) == CASE id = 1 -> "1" [] id = 2 -> "2" [] OTHER -> "3"

\* AutomationEngine.set_ui_elements: {str(elem.id): elem}, a later element
\* replacing an earlier one with the same id
set_ui_elements(ui_elements) ==
  [key \in {str(ui_elements[k].id) : k \in DOMAIN ui_elements} |->
     LET last == CHOOSE k \in DOMAIN ui_elements :
                   /\ str(ui_elements[k].id) = key
                   /\ \A j \in DOMAIN ui_elements : str(ui_elements[j].id) = key => j <= k
     IN ui_elements[last]]

\* task_id or f"task_{int(time.time())}"
task_id_or_generated(task_id) == IF task_id = "None" THEN "task_time" ELSE task_id

\* the arguments of execute_action_plan beside the plan
StartCall ==
  [task_id |-> "t1", original_command |-> "command", claude_output |-> "None",
   ui_elements |-> << >>]

\* mutant: only an empty plan is rejected
start_rejected_empty_only(action_plan) == action_plan = << >>

\* execute_action_plan returns False: a plan is running, or the plan is empty
start_rejected(action_plan) == is_executing \/ action_plan = << >>

\* execute_action_plan: rejected while a plan runs or for an empty plan,
\* otherwise the task state and the UIElement snapshot are replaced and a new
\* worker is constructed and started. cap bounds the number of workers
\* constructed in one run.
execute_action_plan(action_plan, call, cap) ==
  /\ mpc = "idle"
  /\ \/ /\ start_rejected(action_plan)
        /\ is_executing
        /\ UNCHANGED << workers, current_worker, task_vars >>
     \/ /\ start_rejected(action_plan)
        /\ ~is_executing
        /\ UNCHANGED << workers, current_worker, task_vars >>
     \/ /\ ~start_rejected(action_plan)
        /\ Len(workers) < cap
        /\ current_task_id' = task_id_or_generated(call.task_id)
        /\ original_user_command' = call.original_command
        /\ previous_claude_output' = call.claude_output
        /\ ui_elements_map' = set_ui_elements(call.ui_elements)
        /\ workers' = Append(workers, NewWorker(action_plan, config))
        /\ current_worker' = Len(workers) + 1
  /\ UNCHANGED << assessment_vars, function_vars, config, safety, mpc, sigq, callbacks >>

\* ExecutionManager.update_config: the manager's config object is replaced
\* (a running worker keeps the one it was constructed with) and the shared
\* SafetyController is updated in place
update_config(new_config) ==
  /\ mpc = "idle"
  /\ config' = new_config
  /\ safety' = [safety EXCEPT
                  !.require_confirmation_for_medium = new_config.confirm_dangerous_actions,
                  !.block_high_risk = FALSE,
                  !.block_critical_risk = TRUE]
  /\ UNCHANGED << assessment_vars, task_vars, function_vars, workers, current_worker,
                  mpc, sigq, callbacks >>

\* pause_execution
pause_execution ==
  /\ mpc = "idle"
  /\ current_worker # 0
  /\ Put(current_worker, pause(Worker(current_worker)))
  /\ UNCHANGED << assessment_vars, task_vars, function_vars, config, safety, current_worker, mpc, sigq, callbacks >>

\* resume_execution
resume_execution ==
  /\ mpc = "idle"
  /\ current_worker # 0
  /\ Put(current_worker, resume(Worker(current_worker)))
  /\ UNCHANGED << assessment_vars, task_vars, function_vars, config, safety, current_worker, mpc, sigq, callbacks >>

\* the sequence without its k-th element
RemoveAt(seq, k) == SubSeq(seq, 1, k - 1) \o SubSeq(seq, k + 1, Len(seq))

\* the callback handed out for request req is invoked while worker r waits:
\* is it the callback of the request r is waiting for
answers_request(req, w, r) == req.worker = w /\ req.idx = r.i /\ r.pc = "wait_conf"

\* _on_confirmation_requested hands a confirm_callback to the confirmation
\* surface with every confirmation_requested signal; the surface invokes it at
\* most once, at any later time; the callback reaches whatever worker is
\* current_worker when it is invoked
confirm_callback(confirmed) ==
  /\ mpc = "idle"
  /\ \E k \in DOMAIN callbacks :
       /\ callbacks' = RemoveAt(callbacks, k)
       /\ IF current_worker # 0
          THEN LET r == Worker(current_worker) IN
               Put(current_worker,
                   [confirm_action(r, confirmed) EXCEPT
                      !.own_response = r.own_response
                         \/ (confirmed /\ answers_request(callbacks[k], current_worker, r))])
          ELSE UNCHANGED workers
  /\ UNCHANGED << assessment_vars, task_vars, function_vars, config, safety, current_worker, mpc, sigq >>

\* stop_execution: worker.stop(), then the main thread blocks in wait(5000)
stop_execution ==
  /\ mpc = "idle"
  /\ current_worker # 0
  /\ Put(current_worker, stop(Worker(current_worker)))
  /\ mpc' = "stop_wait"
  /\ UNCHANGED << assessment_vars, task_vars, function_vars, config, safety, current_worker, sigq, callbacks >>

\* the 5 s of wait(5000) can pass only while the worker is inside the executor
\* or in the 1 s sleep between attempts; every other step takes at most 100 ms
wait_times_out(r) == r.pc \in {"exec", "retry_sleep"}

\* stop_execution after wait(5000): the worker has finished, or it is still
\* running after 5 s and is terminated; the manager forgets the worker
stop_execution_return ==
  LET r == Worker(current_worker) IN
  /\ mpc = "stop_wait"
  /\ \/ /\ ~isRunning(current_worker)
        /\ UNCHANGED workers
     \/ /\ isRunning(current_worker)
        /\ wait_times_out(r)
        /\ Put(current_worker, [r EXCEPT !.pc = "terminated"])
  /\ current_worker' = 0
  /\ current_task_id' = "None"
  /\ mpc' = "idle"
  /\ UNCHANGED << assessment_vars, original_user_command, previous_claude_output,
                  ui_elements_map, function_vars, config, safety, sigq, callbacks >>

\* _on_execution_completed: a queued execution_completed signal is delivered
_on_execution_completed ==
  /\ mpc = "idle"
  /\ sigq # << >>
  /\ sigq' = Tail(sigq)
  /\ current_worker' = 0
  /\ current_task_id' = "None"
  /\ UNCHANGED << assessment_vars, original_user_command, previous_claude_output,
                  ui_elements_map, function_vars, config, safety, workers, mpc, callbacks >>

WorkerStep(w) ==
  \/ Run_Start(w)
  \/ Run_LoopTop(w)
  \/ Run_Pause(w)
  \/ Run_Assess(w)
  \/ Run_RequestConfirmation(w)
  \/ Run_ConfirmationTimeout(w)
  \/ Run_WaitConfirmation(w)
  \/ Run_ConfirmationResult(w)
  \/ Retry_Dispatch(w)
  \/ \E success \in BOOLEAN, report \in ValidationReports : Retry_Return(w, success, report)
  \/ Retry_Sleep(w)
  \/ Run_Record(w)
  \/ Run_Finalize(w)
  \/ Run_Exception(w)

\* a call made while a plan runs is rejected before the plan is looked at:
\* one plan stands for all of them
Submitted(plans) == IF is_executing THEN {<< ActionClick >>} ELSE plans

\* SafetyController.__init__: the built-in rules, the counters at zero
InitController ==
  /\ safety_rules = SafetyRules
  /\ execution_stats = ZeroStats
  /\ assessing = << >>
  /\ assessment = << >>
  /\ stats_read = << >>

\* ExecutionManager.__init__ and AutomationEngine.__init__: no task, no
\* UIElement snapshot, nothing executed or validated yet
InitTask ==
  /\ current_task_id = "None"
  /\ original_user_command = "None"
  /\ previous_claude_output = "None"
  /\ ui_elements_map = << >>
  /\ engine_result = << >>
  /\ validation_report = << >>

\* ExecutionManager.__init__: no worker
InitManager ==
  /\ workers = << >>
  /\ current_worker = 0
  /\ mpc = "idle"
  /\ sigq = << >>
  /\ callbacks = << >>

Init ==
  /\ config \in ExecutionConfigs
  /\ safety = safety_config(config)
  /\ workers = << >>
  /\ current_worker = 0
  /\ mpc = "idle"
  /\ sigq = << >>
  /\ callbacks = << >>
  /\ InitController
  /\ InitTask

Next ==
  \/ \E w \in WorkerIds : Run_Start(w)
  \/ \E w \in WorkerIds : Run_LoopTop(w)
  \/ \E w \in WorkerIds : Run_Pause(w)
  \/ \E w \in WorkerIds : Run_Assess(w)
  \/ \E w \in WorkerIds : Run_RequestConfirmation(w)
  \/ \E w \in WorkerIds : Run_ConfirmationTimeout(w)
  \/ \E w \in WorkerIds : Run_WaitConfirmation(w)
  \/ \E w \in WorkerIds : Run_ConfirmationResult(w)
  \/ \E w \in WorkerIds : Retry_Dispatch(w)
  \/ \E w \in WorkerIds, success \in BOOLEAN, report \in ValidationReports :
        Retry_Return(w, success, report)
  \/ \E w \in WorkerIds : Retry_Sleep(w)
  \/ \E w \in WorkerIds : Run_Record(w)
  \/ \E w \in WorkerIds : Run_Finalize(w)
  \/ \E w \in WorkerIds : Run_Exception(w)
  \/ \E action_plan \in Submitted(Plans) : execute_action_plan(action_plan, StartCall, 1)
  \/ pause_execution
  \/ resume_execution
  \/ \E confirmed \in BOOLEAN : confirm_callback(confirmed)
  \/ stop_execution
  \/ stop_execution_return
  \/ _on_execution_completed

\* one accepted plan per manager, every configuration
Spec == Init /\ [][Next]_vars

\* the manager with its default configuration, accepting several short plans;
\* the caller starts and stops plans and never pauses
InitMgr ==
  /\ config = DefaultConfig
  /\ safety = safety_config(config)
  /\ workers = << >>
  /\ current_worker = 0
  /\ mpc = "idle"
  /\ sigq = << >>
  /\ callbacks = << >>
  /\ InitController
  /\ InitTask

MgrPlans == {<< >>, << ActionClick >>}

NextMgr ==
  \/ \E w \in WorkerIds : WorkerStep(w)
  \/ stop_execution
  \/ stop_execution_return
  \/ _on_execution_completed
  \/ \E action_plan \in Submitted(MgrPlans) : execute_action_plan(action_plan, StartCall, MaxWorkers)

SpecMgr == InitMgr /\ [][NextMgr]_vars

\* the configurations handed to update_config while a plan may be active
ConfigUpdates ==
  {[DefaultConfig EXCEPT !.confirm_dangerous_actions = FALSE],
   [DefaultConfig EXCEPT !.mode = "full_auto", !.strict_mode = TRUE]}

CfgPlans == {<< ActionPwd >>, << ActionClick, ActionPwd >>}

NextCfg ==
  \/ \E w \in WorkerIds : WorkerStep(w)
  \/ \E action_plan \in Submitted(CfgPlans) : execute_action_plan(action_plan, StartCall, 1)
  \/ \E new_config \in ConfigUpdates : update_config(new_config)
  \/ \E confirmed \in BOOLEAN : confirm_callback(confirmed)
  \/ _on_execution_completed

\* one plan, the configuration updated before and while it runs
SpecCfg == InitMgr /\ [][NextCfg]_vars

\* a UIElement with its bounding box
Elem(id, coordinates) == [id |-> id, coordinates |-> coordinates]

(* ------------------ AutomationEngine and ResultValidator ---------------- *)
\* ResultValidator.pixel_tolerance
pixel_tolerance == 10

\* int((a + b) / 2) for non-negative coordinates
centre(a, b) == (a + b) \div 2

\* mutant: an unresolved position falls back to the screen origin
_get_click_position_origin(action, elements_map) ==
  IF action.element_id # "None" /\ action.element_id \in DOMAIN elements_map
     /\ Len(elements_map[action.element_id].coordinates) >= 4
  THEN LET c == elements_map[action.element_id].coordinates
       IN << centre(c[1], c[3]), centre(c[2], c[4]) >>
  ELSE IF Len(action.coordinates) = 2 THEN action.coordinates
  ELSE IF Len(action.coordinates) = 4
       THEN << centre(action.coordinates[1], action.coordinates[3]),
               centre(action.coordinates[2], action.coordinates[4]) >>
  ELSE << 0, 0 >>

\* _get_click_position: the centre of the element when element_id is in the
\* snapshot and has a bounding box, else the raw coordinates (a point or the
\* centre of a box), else None (the empty sequence)
_get_click_position(action, elements_map) ==
  IF action.element_id # "None" /\ action.element_id \in DOMAIN elements_map
     /\ Len(elements_map[action.element_id].coordinates) >= 4
  THEN LET c == elements_map[action.element_id].coordinates
       IN << centre(c[1], c[3]), centre(c[2], c[4]) >>
  ELSE IF Len(action.coordinates) = 2 THEN action.coordinates
  ELSE IF Len(action.coordinates) = 4
       THEN << centre(action.coordinates[1], action.coordinates[3]),
               centre(action.coordinates[2], action.coordinates[4]) >>
  ELSE << >>

\* the pyautogui call of each pointer action
primitive_of(action_type) ==
  CASE action_type = "click" -> "click"
    [] action_type = "double_click" -> "doubleClick"
    [] action_type = "right_click" -> "rightClick"
    [] action_type = "move" -> "moveTo"

\* _execute_click, _execute_double_click, _execute_right_click, _execute_move:
\* the primitive is called when a position is resolved, else False
_execute_pointer(action, elements_map) ==
  LET position == _get_click_position(action, elements_map) IN
  IF position # << >>
  THEN [success |-> TRUE,
        primitives |-> << [primitive |-> primitive_of(action.type), at |-> position] >>]
  ELSE [success |-> FALSE, primitives |-> << >>]

\* _dispatch_action for the pointer actions; an unknown type returns False
_dispatch_action(action, elements_map) ==
  IF action.type \in {"click", "double_click", "right_click", "move"}
  THEN _execute_pointer(action, elements_map)
  ELSE [success |-> FALSE, primitives |-> << >>]

\* ActionPlan.click_position: the point, the centre of the box, or None
click_position(action) ==
  IF Len(action.coordinates) = 2 THEN action.coordinates
  ELSE IF Len(action.coordinates) = 4
       THEN << centre(action.coordinates[1], action.coordinates[3]),
               centre(action.coordinates[2], action.coordinates[4]) >>
  ELSE << >>

\* distance <= pixel_tolerance, for a target given as twice its coordinates
\* (the centre (x1 + x2) / 2 of an element is not rounded)
within_tolerance(current_pos, twice_target) ==
  (2 * current_pos[1] - twice_target[1]) * (2 * current_pos[1] - twice_target[1])
    + (2 * current_pos[2] - twice_target[2]) * (2 * current_pos[2] - twice_target[2])
  <= 4 * pixel_tolerance * pixel_tolerance

\* _compare_screenshots_for_click; without both screenshots the default
\* of _validate_click_action applies
_compare_screenshots_for_click(shots) ==
  IF shots = "same" THEN "partial" ELSE "success"

\* _validate_click_action
_validate_click_action(action, elements_map, current_pos, shots) ==
  IF action.element_id # "None"
  THEN IF action.element_id \in DOMAIN elements_map
          /\ Len(elements_map[action.element_id].coordinates) >= 4
       THEN LET c == elements_map[action.element_id].coordinates IN
            IF within_tolerance(current_pos, << c[1] + c[3], c[2] + c[4] >>)
            THEN "success" ELSE "partial"
       ELSE _compare_screenshots_for_click(shots)
  ELSE IF click_position(action) # << >>
       THEN LET t == click_position(action) IN
            IF within_tolerance(current_pos, << 2 * t[1], 2 * t[2] >>)
            THEN "success" ELSE "partial"
       ELSE _compare_screenshots_for_click(shots)

\* _validate_movement_action for a move action
_validate_movement_action(action, current_pos) ==
  IF click_position(action) # << >>
  THEN LET t == click_position(action) IN
       IF within_tolerance(current_pos, << 2 * t[1], 2 * t[2] >>)
       THEN "success" ELSE "partial"
  ELSE "success"

\* mutant: every click type is validated by _validate_click_action
validate_action_result_all_clicks(action, elements_map, current_pos, shots) ==
  IF action.type \in {"click", "double_click", "right_click"}
  THEN _validate_click_action(action, elements_map, current_pos, shots)
  ELSE IF action.type = "move" THEN _validate_movement_action(action, current_pos)
  ELSE "success"

\* validate_action_result: the report's result by action type
validate_action_result(action, elements_map, current_pos, shots) ==
  IF action.type = "click"
  THEN _validate_click_action(action, elements_map, current_pos, shots)
  ELSE IF action.type = "move" THEN _validate_movement_action(action, current_pos)
  ELSE "success"

\* the error_message of the ExecutionResult
error_message_of(success, report) ==
  IF ~success THEN "execution failed"
  ELSE IF report = "success" THEN "None"
  ELSE IF report = "partial" THEN "partial success"
  ELSE "validation failed"

\* the pointer actions executed and validated
PointerActions ==
  [type : {"click", "double_click", "right_click", "move"},
   element_id : {"None", "1", "2", "9"},
   coordinates : {<< >>, << 20, 10 >>, << 0, 0, 40, 20 >>, << 1, 2, 3 >>}]

\* the UIElement lists of a screen analysis
Snapshots ==
  {<< >>,
   << Elem(1, << 0, 0, 40, 20 >>) >>,
   << Elem(1, << 0, 0, 40, 20 >>), Elem(2, << 0, 0, 41, 21 >>) >>,
   << Elem(1, << 0, 0, 40 >>) >>}

\* pyautogui.position() after the action
Pointers == {<< 20, 10 >>, << 26, 18 >>, << 27, 18 >>, << 500, 500 >>}

\* the screenshots before and after: not captured, different, identical
Shots == {"none", "changed", "same"}

\* AutomationEngine.set_ui_elements called by the owner of the engine
Engine_SetElements(ui_elements) ==
  /\ ui_elements_map' = set_ui_elements(ui_elements)
  /\ UNCHANGED << assessment_vars, current_task_id, original_user_command,
                  previous_claude_output, function_vars,
                  config, safety, workers, current_worker, mpc, sigq, callbacks >>

\* AutomationEngine._execute_single_action for a pointer action: dispatch,
\* then validation when the dispatch succeeded
Engine_Execute(action, current_pos, shots) ==
  LET dispatch == _dispatch_action(action, ui_elements_map)
      report == validate_action_result(action, ui_elements_map, current_pos, shots)
  IN
  /\ engine_result' = << [action |-> action,
                          snapshot |-> DOMAIN ui_elements_map,
                          status |-> _execute_single_action(dispatch.success, report),
                          error_message |-> error_message_of(dispatch.success, report),
                          primitives |-> dispatch.primitives] >>
  /\ UNCHANGED << assessment_vars, task_vars, validation_report,
                  config, safety, workers, current_worker, mpc, sigq, callbacks >>

\* ResultValidator.validate_action_result on the engine's snapshot
Validate(action, current_pos, shots) ==
  /\ validation_report' = << [action |-> action,
                              target |-> _get_click_position(action, ui_elements_map),
                              current_pos |-> current_pos,
                              result |-> validate_action_result(action, ui_elements_map,
                                                                current_pos, shots)] >>
  /\ UNCHANGED << assessment_vars, task_vars, engine_result,
                  config, safety, workers, current_worker, mpc, sigq, callbacks >>

NextEngine ==
  \/ \E ui_elements \in Snapshots : Engine_SetElements(ui_elements)
  \/ \E action \in PointerActions, current_pos \in Pointers, shots \in Shots :
        Engine_Execute(action, current_pos, shots)

\* the engine executing pointer actions on changing snapshots
SpecEngine == InitMgr /\ [][NextEngine]_vars

NextValidator ==
  \/ \E ui_elements \in Snapshots : Engine_SetElements(ui_elements)
  \/ \E action \in PointerActions, current_pos \in Pointers, shots \in Shots :
        Validate(action, current_pos, shots)

\* the validator judging pointer actions on changing snapshots
SpecValidator == InitMgr /\ [][NextValidator]_vars

\* the arguments of the starts the caller attempts
StartCalls ==
  {StartCall,
   [task_id |-> "None", original_command |-> "None", claude_output |-> "output",
    ui_elements |-> << Elem(1, << 0, 0, 40, 20 >>) >>],
   [task_id |-> "t2", original_command |-> "other", claude_output |-> "None",
    ui_elements |-> << Elem(1, << 0, 0, 40, 20 >>), Elem(1, << 100, 100, 140, 120 >>) >>]}

NextStart ==
  \/ \E w \in WorkerIds : WorkerStep(w)
  \/ \E action_plan \in MgrPlans, call \in StartCalls :
        execute_action_plan(action_plan, call, MaxStarts)
  \/ stop_execution
  \/ stop_execution_return
  \/ _on_execution_completed

\* starts attempted at any time, with different arguments
SpecStart == InitMgr /\ [][NextStart]_vars

ConfirmPlans == {<< ActionKey >>}

NextConfirm ==
  \/ \E w \in WorkerIds : WorkerStep(w)
  \/ \E action_plan \in Submitted(ConfirmPlans) :
        execute_action_plan(action_plan, StartCall, MaxStarts)
  \/ \E confirmed \in BOOLEAN : confirm_callback(confirmed)
  \/ _on_execution_completed

\* plans whose actions need a confirmation, started one after the other; the
\* confirmation surface answers at any time
SpecConfirm == InitMgr /\ [][NextConfirm]_vars

\* a step of run() other than an exception reaching its handler
WorkerProgress(w) == WorkerStep(w) /\ workers'[w].pc # "raised"

\* the scheduling the liveness claims assume: a worker thread that can run
\* does run, also when pause and resume alternate (executor calls return, the
\* 30 s and the sleeps pass); a paused task is resumed (or stopped);
\* wait(5000) returns; the main thread's event loop delivers queued signals
Fairness ==
  /\ \A w \in 1..MaxWorkers : SF_vars(w \in WorkerIds /\ WorkerProgress(w))
  /\ WF_vars(resume_execution)
  /\ WF_vars(stop_execution_return)
  /\ WF_vars(_on_execution_completed)

\* the manager with its default configuration and one accepted plan, under
\* fair scheduling
SpecLive == InitMgr /\ [][Next]_vars /\ Fairness

(* ----------------------- SafetyController alone ------------------------ *)
\* the actions handed to assess_action_safety directly: several rules of
\* different levels at once, a rule of another action type, edge coordinates
ActionCard     == [type |-> "type",  matches |-> {"password", "credit_card"}, edge |-> FALSE, fault |-> FALSE]
ActionDelete   == [type |-> "type",  matches |-> {"file_delete", "password"}, edge |-> FALSE, fault |-> FALSE]
ActionKeyPwd   == [type |-> "key",   matches |-> {"password"},                edge |-> FALSE, fault |-> FALSE]
ActionEdge     == [type |-> "click", matches |-> {},                          edge |-> TRUE,  fault |-> FALSE]
ActionEdgePriv == [type |-> "click", matches |-> {"privacy"},                 edge |-> TRUE,  fault |-> FALSE]

\* actions whose type is not in lower case; _dispatch_action lowers the type
\* and runs them as 'type' and 'key'
ActionPwdUpper    == [type |-> "Type", matches |-> {"password"}, edge |-> FALSE, fault |-> FALSE]
ActionFormatUpper == [type |-> "Key",  matches |-> {"format"},   edge |-> FALSE, fault |-> FALSE]

SafetyActions ==
  {ActionClick, ActionPwd, ActionFormat, ActionFault,
   ActionCard, ActionDelete, ActionKeyPwd, ActionEdge, ActionEdgePriv,
   ActionPwdUpper, ActionFormatUpper}

\* the rule names handed to enable_rule / disable_rule
ToggleRules == {"password", "screen_edge_click"}

\* the names of the rules that are disabled
DisabledRules == {safety_rules[k].name : k \in {j \in DOMAIN safety_rules : ~safety_rules[j].enabled}}

\* assess_action_safety up to execution_stats['total_actions'] += 1; an
\* assessment that raises returns the fail-safe assessment at once
Assess_Begin(action) ==
  LET sa == assess_action_safety(action, safety)
      call == [action |-> action, sa |-> sa, disabled |-> DisabledRules]
  IN
  /\ assessing = << >>
  /\ execution_stats.total_actions < MaxAssessments
  /\ IF action.fault
     THEN /\ assessment' = << call >>
          /\ UNCHANGED << assessing, execution_stats >>
     ELSE /\ assessing' = << call >>
          /\ execution_stats' = count_total(execution_stats)
          /\ UNCHANGED assessment
  /\ UNCHANGED << safety_rules, stats_read, task_vars, function_vars,
                  config, safety, workers, current_worker, mpc, sigq, callbacks >>

\* assess_action_safety from the outcome counter to the return
Assess_End ==
  /\ assessing # << >>
  /\ execution_stats' = count_outcome(execution_stats, assessing[1].sa)
  /\ assessment' = assessing
  /\ assessing' = << >>
  /\ UNCHANGED << safety_rules, stats_read, task_vars, function_vars,
                  config, safety, workers, current_worker, mpc, sigq, callbacks >>

\* enable_rule / disable_rule: the first rule with that name gets the flag
set_enabled(rule_name, flag) ==
  /\ safety_rules' = [k \in DOMAIN safety_rules |->
                        IF safety_rules[k].name = rule_name
                        THEN [safety_rules[k] EXCEPT !.enabled = flag]
                        ELSE safety_rules[k]]
  /\ UNCHANGED << execution_stats, assessing, assessment, stats_read, task_vars, function_vars,
                  config, safety, workers, current_worker, mpc, sigq, callbacks >>

enable_rule(rule_name) == set_enabled(rule_name, TRUE)

disable_rule(rule_name) == set_enabled(rule_name, FALSE)

\* get_execution_stats: a copy of the counters (the rates are computed from
\* the copy)
get_execution_stats ==
  /\ stats_read' = << execution_stats >>
  /\ UNCHANGED << safety_rules, execution_stats, assessing, assessment, task_vars, function_vars,
                  config, safety, workers, current_worker, mpc, sigq, callbacks >>

\* reset_stats
reset_stats ==
  /\ execution_stats' = ZeroStats
  /\ UNCHANGED << safety_rules, assessing, assessment, stats_read, task_vars, function_vars,
                  config, safety, workers, current_worker, mpc, sigq, callbacks >>

\* a SafetyController under every safety configuration
InitSafety ==
  /\ config = DefaultConfig
  /\ safety \in SafetyConfigs
  /\ InitManager
  /\ InitController
  /\ InitTask

NextSafety ==
  \/ \E action \in SafetyActions : Assess_Begin(action)
  \/ Assess_End
  \/ \E rule_name \in ToggleRules : enable_rule(rule_name)
  \/ \E rule_name \in ToggleRules : disable_rule(rule_name)

\* assessments while rules are enabled and disabled
SpecSafety == InitSafety /\ [][NextSafety]_vars

StatsActions == {ActionClick, ActionPwd, ActionFormat}

NextStats ==
  \/ \E action \in StatsActions : Assess_Begin(action)
  \/ Assess_End
  \/ get_execution_stats
  \/ reset_stats

\* the worker thread assesses while the main thread reads and resets the
\* statistics
SpecStats == InitMgr /\ [][NextStats]_vars

(* ============================ properties =============================== *)
\* the SafetyAssessment the worker obtained for action idx (once assessed)
AssessmentOf(r, idx) == r.assessments[idx + 1]

\* needs_confirmation as computed for action idx (once assessed)
NeedsOf(r, idx) == r.needs[idx + 1]

\* the worker is inside _execute_with_retry for action r.i
InRetry(r) == r.pc \in {"retry_loop", "exec", "retry_sleep", "record"}

\* a signal sig with index idx is in the worker's emitted sequence
Emitted(r, sig, idx) ==
  \E k \in DOMAIN r.emitted : r.emitted[k].sig = sig /\ r.emitted[k].idx = idx

\* the number of calls of _execute_single_action for action idx
RECURSIVE CountOf(_, _)
CountOf(seq, idx) ==
  IF seq = << >> THEN 0
  ELSE (IF Head(seq) = idx THEN 1 ELSE 0) + CountOf(Tail(seq), idx)

\* C1: an action whose assessment has block_execution = true is never
\* dispatched to the executor, whatever the confirmation responses and mode.
C1_BlockedNeverDispatched ==
  \A w \in WorkerIds : \A k \in DOMAIN workers[w].dispatched :
    ~AssessmentOf(workers[w], workers[w].dispatched[k]).block_execution

\* C2: at most one ExecutionWorker is running at any time.
C2_AtMostOneWorkerRunning ==
  Cardinality({w \in WorkerIds : isRunning(w)}) <= 1

\* C3 (as stated): the worker leaves the confirmation wait only on an explicit
\* boolean response or on the 30 s timeout; a gated action is dispatched only
\* if confirm_action(True) arrived during its wait, and never after a timeout.
C3_GatedDispatchNeedsApproval ==
  \A w \in WorkerIds :
    LET r == workers[w] IN
    (InRetry(r) /\ NeedsOf(r, r.i)) => (r.confirmed_in_wait /\ ~r.elapsed)

C3_ResumesOnlyOnResponseOrTimeout ==
  /\ \A w \in WorkerIds :
       LET r == workers[w] IN
       r.pc = "conf_check" => (r.confirmation_result # "None" \/ r.elapsed)
  /\ C3_GatedDispatchNeedsApproval

\* C3 (amended): the worker leaves the confirmation wait only on an explicit
\* boolean response, on the 30 s timeout or on stop(); a gated action is
\* dispatched only if confirm_action(True) arrived during its wait, and never
\* after a timeout.
C3_ResumesOnResponseTimeoutOrStop ==
  /\ \A w \in WorkerIds :
       LET r == workers[w] IN
       r.pc = "conf_check" =>
         (r.confirmation_result # "None" \/ r.elapsed \/ r.should_stop)
  /\ C3_GatedDispatchNeedsApproval

C3_Witness ==
  \E w \in WorkerIds :
    LET r == workers[w] IN
    r.pc = "exec" /\ NeedsOf(r, r.i) /\ r.i = 1 /\ ~r.should_stop

\* C4: no confirmation is requested for an action whose assessment has
\* block_execution = true.
C4_BlockedNeverOffered ==
  \A w \in WorkerIds : \A k \in DOMAIN workers[w].emitted :
    LET e == workers[w].emitted[k] IN
    e.sig = "confirmation_requested" => ~AssessmentOf(workers[w], e.idx).block_execution

\* C5: an assessment that raises yields HIGH risk, requires_confirmation,
\* no block and a warning; in every mode such an action goes through the
\* confirmation gate and is dispatched only after an approval.
C5_AssessmentFailsSafe ==
  \A w \in WorkerIds :
    LET r == workers[w] IN
    /\ \A k \in DOMAIN r.assessments :
         r.action_plan[k].fault =>
           /\ r.assessments[k].risk_level = HIGH
           /\ r.assessments[k].requires_confirmation
           /\ ~r.assessments[k].block_execution
           /\ r.assessments[k].warning
           /\ r.needs[k]
    /\ \A k \in DOMAIN r.dispatched :
         r.action_plan[r.dispatched[k] + 1].fault =>
           Emitted(r, "confirmation_requested", r.dispatched[k])

C5_Witness ==
  \E w \in WorkerIds :
    LET r == workers[w] IN
    /\ r.config.mode = "full_auto"
    /\ r.pc = "exec"
    /\ r.action_plan[r.i + 1].fault

\* C6: actions are dispatched in plan order, one at a time: the dispatched
\* indices never decrease, no action event follows the action_completed of
\* the same or a higher index, and the results list and the action_completed
\* events are in strictly increasing index order.
ActionEvent(e) == e.sig \in {"action_started", "action_completed"}

C6_PlanOrder ==
  \A w \in WorkerIds :
    LET r == workers[w] IN
    /\ \A a, b \in DOMAIN r.dispatched : a < b => r.dispatched[a] <= r.dispatched[b]
    /\ \A a, b \in DOMAIN r.emitted :
         (a < b /\ ActionEvent(r.emitted[a]) /\ ActionEvent(r.emitted[b])) =>
           /\ r.emitted[a].idx <= r.emitted[b].idx
           /\ r.emitted[a].sig = "action_completed" => r.emitted[a].idx < r.emitted[b].idx
    /\ \A a, b \in DOMAIN r.action_results :
         a < b => r.action_results[a].action_index < r.action_results[b].action_index
    /\ \A a \in DOMAIN r.action_results :
         /\ CountOf(r.dispatched, r.action_results[a].action_index) >= 1
         /\ Emitted(r, "action_completed", r.action_results[a].action_index)

C6_Witness ==
  \E w \in WorkerIds :
    LET r == workers[w] IN
    /\ Len(r.action_results) = 2
    /\ CountOf(r.dispatched, 0) = 2
    /\ CountOf(r.dispatched, 1) = 2

\* C7: the recorded retry count of an action is at most max_retries, and no
\* retry count is recorded when auto_retry is false.
C7_RetryCountBounded ==
  \A w \in WorkerIds :
    LET r == workers[w] IN
    /\ \A k \in DOMAIN r.retry_counts : r.retry_counts[k] <= r.config.max_retries
    /\ ~r.config.auto_retry => DOMAIN r.retry_counts = {}

\* the attempts made for action idx: the statuses its dispatches returned
RECURSIVE AttemptsOf(_, _, _)
AttemptsOf(dispatched, outcomes, idx) ==
  IF outcomes = << >> THEN << >>
  ELSE (IF Head(dispatched) = idx THEN << Head(outcomes) >> ELSE << >>)
       \o AttemptsOf(Tail(dispatched), Tail(outcomes), idx)

RecordedRetries(r, idx) == IF idx \in DOMAIN r.retry_counts THEN r.retry_counts[idx] ELSE 0

\* C8: with auto_retry, an action that fails k <= max_retries times and then
\* succeeds is dispatched exactly k + 1 times, ends SUCCESS and has recorded
\* retry count k; no attempt follows a SUCCESS; without auto_retry an action
\* is dispatched exactly once.
C8_RetryUntilSuccess ==
  \A w \in WorkerIds :
    LET r == workers[w] IN
    \A a \in DOMAIN r.action_results :
      LET idx == r.action_results[a].action_index
          att == AttemptsOf(r.dispatched, r.outcomes, idx)
          n == Len(att)
      IN
      /\ n >= 1
      /\ n = CountOf(r.dispatched, idx)
      /\ \A j \in 1..(n - 1) : att[j] = "FAILED"
      /\ r.action_results[a].status = att[n]
      /\ ~r.config.auto_retry => n = 1
      /\ (r.config.auto_retry /\ att[n] = "SUCCESS") =>
           /\ n - 1 <= r.config.max_retries
           /\ RecordedRetries(r, idx) = n - 1
      /\ (r.config.auto_retry /\ att[n] = "FAILED") => n = r.config.max_retries + 1

C8_Witness ==
  \E w \in WorkerIds :
    LET r == workers[w] IN
    /\ r.config.auto_retry
    /\ r.config.max_retries = MaxRetriesCfg
    /\ Len(r.action_results) >= 1
    /\ r.action_results[1].status = "SUCCESS"
    /\ RecordedRetries(r, 0) = MaxRetriesCfg

\* C9: with strict_mode, no action is dispatched after an action whose final
\* result is FAILED; without strict_mode a plan ends before its last action
\* only by stop() or by a declined or timed-out confirmation.
C9_StrictModeHalts ==
  \A w \in WorkerIds :
    LET r == workers[w] IN
    /\ r.config.strict_mode =>
         \A a \in DOMAIN r.action_results :
           r.action_results[a].status = "FAILED" =>
             \A k \in DOMAIN r.dispatched : r.dispatched[k] <= r.action_results[a].action_index
    /\ (~r.config.strict_mode /\ r.pc \in {"finalize", "done"}
          /\ Len(r.action_results) < Len(r.action_plan)) =>
         \/ r.should_stop
         \/ /\ Emitted(r, "confirmation_requested", Len(r.action_results))
            /\ CountOf(r.dispatched, Len(r.action_results)) = 0

C9_Witness ==
  \E w \in WorkerIds :
    LET r == workers[w] IN
    /\ r.config.strict_mode
    /\ r.pc = "done"
    /\ ~r.should_stop
    /\ Len(r.action_plan) = 2
    /\ Len(r.action_results) = 1
    /\ r.action_results[1].status = "FAILED"

\* C10: a stop() that arrives only after the last action has completed
\* successfully leaves the task's terminal status SUCCESS.
C10_StopAfterLastKeepsSuccess ==
  \A w \in WorkerIds :
    LET r == workers[w] IN
    (r.result # NoResult /\ r.stop_after_last) => r.result.status = "SUCCESS"

\* C11: once a task has its TaskExecutionResult, total_actions equals the
\* number of per-action results, also after stop(), a declined or timed-out
\* confirmation or a strict-mode halt.
C11_TotalEqualsResults ==
  \A w \in WorkerIds :
    LET r == workers[w] IN
    r.result # NoResult => r.result.total_actions = Len(r.result.action_results)

\* the number of results with status SUCCESS, counted as a set
SuccessCount(results) ==
  Cardinality({k \in DOMAIN results : results[k].status = "SUCCESS"})

\* the fraction rate equals a / b, and 0 when b = 0
RateIs(rate, a, b) ==
  /\ rate.den # 0
  /\ IF b = 0 THEN rate.num = 0 ELSE rate.num * b = a * rate.den

\* C12: in every TaskExecutionResult completed_actions is the number of
\* results with status SUCCESS, completed_actions <= len(action_results) <=
\* total_actions, and success_rate = completed_actions / total_actions (0 when
\* total_actions is 0).
C12_ResultCounts ==
  /\ \A w \in WorkerIds :
       LET res == workers[w].result IN
       res # NoResult =>
         /\ res.completed_actions = SuccessCount(res.action_results)
         /\ res.completed_actions <= Len(res.action_results)
         /\ Len(res.action_results) <= res.total_actions
         /\ res.total_actions = Len(workers[w].action_plan)
         /\ RateIs(res.success_rate, res.completed_actions, res.total_actions)
  /\ \A total \in 0..MaxPlanLen : \A completed \in 0..total :
       RateIs(success_rate(completed, total), completed, total)

C12_Witness ==
  \E w \in WorkerIds :
    LET res == workers[w].result IN
    /\ res # NoResult
    /\ res.total_actions = 2
    /\ Len(res.action_results) = 2
    /\ res.completed_actions = 1
    /\ res.action_results[1].status = "FAILED"

\* C13: if stop() is invoked on a started task before any action has been
\* dispatched, no action is ever dispatched and the TaskExecutionResult has
\* completed_actions = 0 and status CANCELLED.
C13_StopBeforeDispatch ==
  \A w \in WorkerIds :
    LET r == workers[w] IN
    r.stop_before_dispatch =>
      /\ r.dispatched = << >>
      /\ r.result # NoResult =>
           (r.result.completed_actions = 0 /\ r.result.status = "CANCELLED")

\* C14: if stop() is invoked while the worker waits in the confirmation wait
\* loop for action i, action i is not dispatched, whether or not
\* confirm_action(True) arrives before or after the stop, and the task ends
\* CANCELLED.
C14_StopInWaitDeclines ==
  \A w \in WorkerIds :
    LET r == workers[w] IN
    r.stopped_in_wait =>
      /\ r.pc \in {"wait_conf", "conf_check", "finalize", "done"}
      /\ CountOf(r.dispatched, r.i) = 0
      /\ Len(r.action_results) = r.i
      /\ r.pc \in {"finalize", "done"} => r.gate_end = "stopped"
      /\ r.pc = "done" => r.result.status = "CANCELLED"

C14_Witness ==
  \E w \in WorkerIds :
    LET r == workers[w] IN
    /\ r.stopped_in_wait
    /\ r.confirmed_in_wait
    /\ r.i = 1
    /\ r.pc = "done"

\* the outcome of a declined confirmation for action r.i: the action is never
\* dispatched, the plan ends with the results recorded before it, and the
\* TaskExecutionResult is FAILED (CANCELLED when stop() arrived afterwards)
DeclinedOutcome(r) ==
  /\ r.pc \in {"finalize", "done"}
  /\ CountOf(r.dispatched, r.i) = 0
  /\ \A k \in DOMAIN r.dispatched : r.dispatched[k] < r.i
  /\ Len(r.action_results) = r.i
  /\ r.pc = "done" =>
       /\ r.result.status \in {"FAILED", "CANCELLED"}
       /\ r.result.status = "CANCELLED" => r.should_stop
       /\ r.result.completed_actions = SuccessCount(r.action_results)
       /\ r.result.action_results = r.action_results

\* C15: a confirmation request that times out with no response has the
\* outcome of an explicit confirm_action(False): the same actions are
\* dispatched and the TaskExecutionResult has the same status,
\* completed_actions and per-action results.
C15_TimeoutIsDecline ==
  \A w \in WorkerIds :
    LET r == workers[w] IN
    /\ r.gate_end = "timeout" => DeclinedOutcome(r)
    /\ r.gate_end = "declined" => DeclinedOutcome(r)

C15_Witness ==
  \E w \in WorkerIds :
    LET r == workers[w] IN
    /\ r.gate_end = "timeout"
    /\ r.i = 1
    /\ r.pc = "done"
    /\ ~r.should_stop
    /\ r.result.completed_actions = 1

\* the confirmation gate has been invoked for action idx
GateInvoked(r, idx) ==
  \/ Emitted(r, "confirmation_requested", idx)
  \/ (r.i = idx /\ r.pc = "request")

\* C18: in MANUAL and STEP_BY_STEP the gate is invoked for every action; in
\* FULL_AUTO it is invoked iff the assessment requires confirmation, so a
\* FULL_AUTO action without triggered rules is dispatched with no
\* confirmation_requested event.
C18_ModeGovernsGate ==
  \A w \in WorkerIds :
    LET r == workers[w] IN
    \A k \in DOMAIN r.needs :
      /\ GateInvoked(r, k - 1) <=> r.needs[k]
      /\ r.config.mode \in {"manual", "step_by_step"} => r.needs[k]
      /\ r.config.mode = "full_auto" =>
           /\ r.needs[k] <=> r.assessments[k].requires_confirmation
           /\ (r.assessments[k].risk_level = LOW /\ ~r.action_plan[k].fault) =>
                /\ ~GateInvoked(r, k - 1)
                /\ r.i = k - 1 => (InRetry(r) \/ CountOf(r.dispatched, k - 1) >= 1)

C18_Witness ==
  \E w \in WorkerIds :
    LET r == workers[w] IN
    /\ r.config.mode = "full_auto"
    /\ r.i = 1
    /\ r.pc = "exec"
    /\ r.action_plan[2] = ActionKey
    /\ r.emitted[Len(r.emitted)].sig = "action_started"
    /\ ~Emitted(r, "confirmation_requested", 0)
    /\ ~Emitted(r, "confirmation_requested", 1)

\* C19: in SEMI_AUTO the gate is invoked for an action iff the assessment
\* requires confirmation or the action type is drag, key or hotkey, whatever
\* the other configuration fields are.
C19_SemiAutoSensitiveTypes ==
  \A w \in WorkerIds :
    LET r == workers[w] IN
    r.config.mode = "semi_auto" =>
      \A k \in DOMAIN r.needs :
        /\ GateInvoked(r, k - 1) <=> r.needs[k]
        /\ r.needs[k] <=> (\/ r.assessments[k].requires_confirmation
                           \/ r.action_plan[k].type \in {"drag", "key", "hotkey"})

\* the value requires_confirmation has for a risk level, as the claim gives it
RequiredFor(risk_level, sc) ==
  CASE risk_level = LOW -> FALSE
    [] risk_level = MEDIUM -> sc.require_confirmation_for_medium
    [] risk_level = HIGH -> TRUE
    [] risk_level = CRITICAL -> TRUE

\* C20: under a fixed safety configuration requires_confirmation is monotonic
\* non-decreasing over LOW < MEDIUM < HIGH < CRITICAL: false for LOW,
\* require_confirmation_for_medium for MEDIUM, true for HIGH and CRITICAL;
\* every assessment the worker obtains carries that value.
C20_RequiresConfirmationMonotonic ==
  /\ \A sc \in SafetyConfigs :
       /\ \A a \in RiskLevel : _requires_confirmation(a, sc) = RequiredFor(a, sc)
       /\ \A a, b \in RiskLevel :
            (a <= b /\ _requires_confirmation(a, sc)) => _requires_confirmation(b, sc)
  /\ \A w \in WorkerIds :
       LET r == workers[w] IN
       \A k \in DOMAIN r.assessments :
         r.assessments[k].requires_confirmation
           = RequiredFor(r.assessments[k].risk_level, safety)

C20_Witness ==
  \E w \in WorkerIds :
    LET r == workers[w] IN
    /\ Len(r.assessments) = 2
    /\ r.assessments[1].risk_level = MEDIUM
    /\ ~r.assessments[1].requires_confirmation
    /\ r.assessments[2].risk_level = CRITICAL
    /\ r.assessments[2].requires_confirmation

\* execution_completed of worker w has been emitted and delivered
Reported(w) ==
  /\ w \in WorkerIds
  /\ workers[w].result # NoResult
  /\ \A k \in DOMAIN sigq : sigq[k] # w

\* the number of execution_completed signals a worker emitted
RECURSIVE CountCompleted(_)
CountCompleted(emitted) ==
  IF emitted = << >> THEN 0
  ELSE (IF Head(emitted).sig = "execution_completed" THEN 1 ELSE 0)
       + CountCompleted(Tail(emitted))

\* C16: every accepted plan is eventually reported: the caller eventually
\* receives the TaskExecutionResult of every started task, and at most one,
\* on every path, stop_execution and an exception in the worker loop included.
C16_EveryAcceptedPlanReported ==
  /\ \A w \in 1..MaxWorkers : (w \in WorkerIds) ~> Reported(w)
  /\ [](\A w \in WorkerIds : CountCompleted(workers[w].emitted) <= 1)

\* C17: an exception in the worker's loop is captured as final_error of an
\* emitted TaskExecutionResult with status FAILED.
C17_ExceptionReportedAsFailed ==
  \A w \in WorkerIds :
    LET r == workers[w] IN
    Emitted(r, "error_occurred", 0) =>
      /\ r.result # NoResult
      /\ r.result.status = "FAILED"
      /\ r.result.final_error
      /\ Emitted(r, "execution_completed", 0)

\* C21: the risk_level of an assessment produced without an internal error
\* is the maximum of the risk levels of the triggered rules, LOW when none.
C21_RiskIsMaximum ==
  \A k \in DOMAIN assessment :
    LET sa == assessment[k].sa
        levels == {sa.triggered_rules[j].risk_level : j \in DOMAIN sa.triggered_rules}
    IN ~assessment[k].action.fault =>
         /\ levels = {} => sa.risk_level = LOW
         /\ levels # {} => (sa.risk_level \in levels /\ \A l \in levels : l <= sa.risk_level)

C21_Witness ==
  /\ assessment # << >>
  /\ Len(assessment[1].sa.triggered_rules) = 2
  /\ assessment[1].sa.triggered_rules[1].risk_level = MEDIUM
  /\ assessment[1].sa.triggered_rules[2].risk_level = CRITICAL
  /\ assessment[1].sa.risk_level = CRITICAL

\* block_execution as the claim gives it
BlockedFor(risk_level, sc) ==
  \/ (risk_level = CRITICAL /\ sc.block_critical_risk)
  \/ (risk_level = HIGH /\ sc.block_high_risk)

StatsConsistent(stats) ==
  stats.total_actions
    = stats.blocked_actions + stats.confirmed_actions + stats.auto_executed_actions

\* C28: no get_execution_stats read observes total_actions different from
\* blocked + confirmed + auto_executed, and the equality holds whenever no
\* assessment is in progress.
C28_StatsConsistent ==
  /\ \A k \in DOMAIN stats_read : StatsConsistent(stats_read[k])
  /\ assessing = << >> => StatsConsistent(execution_stats)

\* C29: an assessment lists only rules that were enabled when it was made
\* and whose applies_to includes the action's type.
C29_OnlyEnabledRulesTrigger ==
  \A k \in DOMAIN assessment :
    \A j \in DOMAIN assessment[k].sa.triggered_rules :
      LET rule == assessment[k].sa.triggered_rules[j] IN
      /\ rule.name \notin assessment[k].disabled
      /\ assessment[k].action.type \in rule.applies_to

\* action r.i has been dispatched and its result is not recorded yet
InFlight(r) ==
  \/ r.pc \in {"exec", "retry_sleep", "record"}
  \/ (r.pc = "retry_loop" /\ CountOf(r.dispatched, r.i) >= 1)

\* the worker is between two actions, or has left the loop
BetweenActions(r) == r.pc \in {"loop_top", "pause", "finalize", "done", "raised", "terminated"}

\* pause() was invoked and neither resume() nor stop() since
PausedNotStopped(r) == r.is_paused /\ ~r.should_stop

\* the worker is inside the loop body for action r.i
InLoopBody(r) ==
  r.pc \in {"pause", "assess", "request", "wait_conf", "conf_check",
            "retry_loop", "exec", "retry_sleep", "record"}

\* one step of a worker that is and stays paused and not stopped, taken
\* while an action is in flight or after it: nothing new is dispatched and
\* no confirmation is requested
PausedStep(r, r2) ==
  (PausedNotStopped(r) /\ PausedNotStopped(r2) /\ (InFlight(r) \/ BetweenActions(r))) =>
    /\ InFlight(r2) \/ BetweenActions(r2)
    /\ \A k \in DOMAIN r2.dispatched : CountOf(r.dispatched, r2.dispatched[k]) >= 1
    /\ \A k \in DOMAIN r2.emitted :
         r2.emitted[k].sig = "confirmation_requested" =>
           Emitted(r, "confirmation_requested", r2.emitted[k].idx)
    /\ (r.pc = "record" /\ r2.pc = "loop_top") =>
         /\ r2.i = r.i + 1
         /\ r2.action_results = Append(r.action_results, [action_index |-> r.i, status |-> r.status])

\* C23: while a worker stays paused (no resume() or stop()), the action in
\* flight runs on through its retries and its result is recorded, the next
\* action is neither dispatched nor submitted for confirmation; the action
\* the loop body works on is always the first one without a recorded result,
\* so nothing is skipped or repeated after resume().
C23_PauseIsCooperative ==
  /\ [](\A w \in WorkerIds :
         LET r == workers[w] IN
         /\ \A k \in DOMAIN r.action_results : r.action_results[k].action_index = k - 1
         /\ InLoopBody(r) => r.i = Len(r.action_results))
  /\ [][\A w \in WorkerIds : PausedStep(workers[w], workers'[w])]_vars

C23_Witness ==
  \E w \in WorkerIds :
    LET r == workers[w] IN
    /\ PausedNotStopped(r)
    /\ r.pc = "pause"
    /\ r.i = 1
    /\ Len(r.action_plan) = 2
    /\ Len(r.action_results) = 1
    /\ r.dispatched = << 0, 0 >>

\* C24: a worker never ends while a dispatch to the executor has not
\* returned.
C24_DispatchRunsToCompletion ==
  \A w \in WorkerIds :
    ~isRunning(w) => Len(workers[w].dispatched) = Len(workers[w].outcomes)

\* C25: every assessment a worker obtained applies the safety policy of the
\* configuration the worker was started with, whatever update_config calls
\* were made since.
C25_ConfigNotHotSwapped ==
  \A w \in WorkerIds :
    LET r == workers[w] IN
    \A k \in DOMAIN r.assessments :
      /\ r.assessments[k].requires_confirmation
           = RequiredFor(r.assessments[k].risk_level, safety_config(r.config))
      /\ r.assessments[k].block_execution
           = BlockedFor(r.assessments[k].risk_level, safety_config(r.config))

C26_ResolutionFailureFails ==
  \A k \in DOMAIN engine_result :
    LET res == engine_result[k] IN
    (res.action.element_id \notin res.snapshot /\ res.action.coordinates = << >>) =>
      /\ res.status = "FAILED"
      /\ res.error_message \notin {"None", ""}
      /\ res.primitives = << >>

C26_Witness ==
  /\ engine_result # << >>
  /\ engine_result[1].action.type = "double_click"
  /\ engine_result[1].action.element_id = "9"
  /\ engine_result[1].snapshot = {"1", "2"}
  /\ engine_result[1].action.coordinates = << >>
  /\ engine_result[1].status = "FAILED"
  /\ engine_result[1].primitives = << >>

\* the pointer is within pixel_tolerance of the resolved target
NearTarget(current_pos, target) ==
  (current_pos[1] - target[1]) * (current_pos[1] - target[1])
    + (current_pos[2] - target[2]) * (current_pos[2] - target[2])
  <= pixel_tolerance * pixel_tolerance

\* C30: for click, double_click and right_click, when the target resolves,
\* the report is SUCCESS when the pointer is within the pixel tolerance of
\* the target and PARTIAL when it is outside.
C30_ClicksValidatedByDistance ==
  \A k \in DOMAIN validation_report :
    LET rep == validation_report[k] IN
    (rep.action.type \in {"click", "double_click", "right_click"} /\ rep.target # << >>) =>
      rep.result = IF NearTarget(rep.current_pos, rep.target) THEN "success" ELSE "partial"

\* the status the claim gives an attempt with raw outcome success and
\* validation report `report`
GradedStatus(success, report) ==
  IF success /\ report \in {"success", "partial"} THEN "SUCCESS" ELSE "FAILED"

\* one attempt returns: the worker before (r) and after (r2)
AttemptGraded(r, r2, success, report) ==
  /\ r2.status = GradedStatus(success, report)
  /\ r2.outcomes = Append(r.outcomes, GradedStatus(success, report))
  /\ (success /\ report = "partial") => r2.pc = "record"
  /\ (GradedStatus(success, report) = "FAILED" /\ r.config.auto_retry
        /\ r.retry_count < r.config.max_retries) => r2.pc = "retry_sleep"
  /\ r2.pc \in {"record", "retry_sleep"}

\* C31: a raw executor failure gives FAILED; a raw success gives SUCCESS for
\* a SUCCESS report, SUCCESS with a non-empty message and no retry for a
\* PARTIAL report, and FAILED, retried per policy, for a FAILED, TIMEOUT or
\* ERROR report; the attempt always returns into the retry loop.
C31_ValidationGradesRawSuccess ==
  /\ [](/\ error_message_of(TRUE, "partial") \notin {"None", ""}
        /\ \A report \in ValidationReports : error_message_of(FALSE, report) \notin {"None", ""})
  /\ [][\A w \in WorkerIds, success \in BOOLEAN,
           report \in {"success", "partial", "failed", "timeout", "error"} :
           Retry_Return(w, success, report)
             => AttemptGraded(workers[w], workers'[w], success, report)]_vars

C31_Witness ==
  \E w \in WorkerIds :
    LET r == workers[w] IN
    /\ r.config.auto_retry
    /\ r.pc = "record"
    /\ r.i = 1
    /\ r.dispatched = << 0, 1, 1 >>
    /\ r.outcomes = << "SUCCESS", "FAILED", "SUCCESS" >>
    /\ r.retry_count = 1

\* the last confirmation request of the worker ended without approval
GateRefused(r) == r.gate_end \in {"declined", "timeout", "timeout_late_response", "stopped"}

\* the number of events sig(idx) in an emitted sequence
RECURSIVE CountEvent(_, _, _)
CountEvent(emitted, sig, idx) ==
  IF emitted = << >> THEN 0
  ELSE (IF Head(emitted).sig = sig /\ Head(emitted).idx = idx THEN 1 ELSE 0)
       + CountEvent(Tail(emitted), sig, idx)

\* C32: execution_started is emitted once and before every action event;
\* every action_completed(i) follows an action_started(i), and there is one
\* action_started(i) per attempt; no action event is emitted for an action
\* whose confirmation was refused; execution_completed is emitted at most
\* once and after every action event.
C32_LifecycleOrder ==
  \A w \in WorkerIds :
    LET r == workers[w] IN
    /\ r.emitted # << >> => r.emitted[1].sig = "execution_started"
    /\ CountEvent(r.emitted, "execution_started", 0) <= 1
    /\ \A b \in DOMAIN r.emitted :
         r.emitted[b].sig = "action_completed" =>
           \E a \in 1..(b - 1) :
             r.emitted[a].sig = "action_started" /\ r.emitted[a].idx = r.emitted[b].idx
    /\ \A idx \in 0..(Len(r.action_plan) - 1) :
         /\ CountEvent(r.emitted, "action_started", idx) = CountOf(r.dispatched, idx)
         /\ CountEvent(r.emitted, "action_completed", idx) <= 1
    /\ GateRefused(r) =>
         \A a \in DOMAIN r.emitted : ActionEvent(r.emitted[a]) => r.emitted[a].idx < r.i
    /\ CountCompleted(r.emitted) <= 1
    /\ \A a \in DOMAIN r.emitted :
         r.emitted[a].sig = "execution_completed" => a = Len(r.emitted)

C32_Witness ==
  \E w \in WorkerIds :
    LET r == workers[w] IN
    /\ r.pc = "done"
    /\ r.gate_end = "declined"
    /\ r.i = 1
    /\ Len(r.emitted) = 6
    /\ r.emitted[1].sig = "execution_started"
    /\ r.emitted[2] = [sig |-> "action_started", idx |-> 0]
    /\ r.emitted[3] = [sig |-> "action_started", idx |-> 0]
    /\ r.emitted[4] = [sig |-> "action_completed", idx |-> 0]
    /\ r.emitted[5] = [sig |-> "confirmation_requested", idx |-> 1]
    /\ r.emitted[6].sig = "execution_completed"

\* C33: once stop() has been invoked and an attempt of action r.i is in
\* flight, or the worker is in the delay between attempts or past the
\* attempts, no further attempt and no later action is dispatched.
C33_StopObservedInRetryLoop ==
  [][\A w \in WorkerIds :
       LET r == workers[w] IN
       (r.should_stop /\ (InFlight(r) \/ r.pc \in {"loop_top", "finalize", "done"}))
         => workers'[w].dispatched = r.dispatched]_vars

\* stop() has been invoked on worker w while it was running, and it still is
StoppedRunning(w) == w \in WorkerIds /\ workers[w].should_stop /\ isRunning(w)

\* the worker's loop has ended and the status computed is CANCELLED
EndedCancelled(w) ==
  w \in WorkerIds /\ workers[w].pc = "done" /\ workers[w].result.status = "CANCELLED"

\* C34: the cancellation flag is never cleared, a stopped worker is not held
\* by the pause loop or the confirmation wait, and a worker stopped while
\* running eventually ends its loop and computes the status CANCELLED.
C34_StopAlwaysWins ==
  /\ [][\A w \in WorkerIds : workers[w].should_stop => workers'[w].should_stop]_vars
  /\ [](\A w \in WorkerIds :
         workers[w].should_stop => (~workers[w].is_paused \/ ~pause_loop(workers[w])))
  /\ \A w \in 1..MaxWorkers : StoppedRunning(w) ~> EndedCancelled(w)

\* C35: an action that went through the confirmation gate is dispatched only
\* when the callback handed out for its own request was invoked with True
\* during its wait: a reply to another request never gets it dispatched.
C35_ResponseAnswersItsRequest ==
  \A w \in WorkerIds :
    LET r == workers[w] IN
    (r.gate_end = "approved" /\ CountOf(r.dispatched, r.i) >= 1 /\ NeedsOf(r, r.i))
      => r.own_response

\* the same action with its type in lower case, as the dispatcher reads it
Lowered(action) == [action EXCEPT !.type = lower(action.type)]

\* C36: an assessment is the one the same action with its type in lower
\* case gets under the same rules and policy: risk_level,
\* requires_confirmation and block_execution do not depend on the letter
\* case of the action type.
C36_RiskIgnoresTypeCase ==
  \A k \in DOMAIN assessment :
    LET sa == assessment[k].sa
        twin == assess_action_safety(Lowered(assessment[k].action), safety)
    IN assessment[k].disabled = DisabledRules =>
         /\ sa.risk_level = twin.risk_level
         /\ sa.requires_confirmation = twin.requires_confirmation
         /\ sa.block_execution = twin.block_execution

\* the confirmation of action r.i was declined or timed out
GateDeclined(r) == r.gate_end \in {"declined", "timeout", "timeout_late_response"}

\* C37: after a declined or timed-out confirmation for action i the plan
\* has halted: action i and the later actions are never dispatched, the
\* later actions are never assessed, no result is recorded for action i or
\* later, and the task status is FAILED unless stop() was invoked.
C37_DeclineHaltsPlan ==
  \A w \in WorkerIds :
    LET r == workers[w] IN
    GateDeclined(r) =>
      /\ r.pc \in {"finalize", "done"}
      /\ \A k \in DOMAIN r.dispatched : r.dispatched[k] < r.i
      /\ Len(r.assessments) = r.i + 1
      /\ \A k \in DOMAIN r.action_results : r.action_results[k].action_index < r.i
      /\ \A k \in DOMAIN r.emitted :
           r.emitted[k].sig = "confirmation_requested" => r.emitted[k].idx <= r.i
      /\ (r.pc = "done" /\ ~r.should_stop) => r.result.status = "FAILED"

C37_Witness ==
  \E w \in WorkerIds :
    LET r == workers[w] IN
    /\ r.gate_end = "timeout"
    /\ r.pc = "done"
    /\ ~r.should_stop
    /\ r.i = 1
    /\ Len(r.action_plan) = 2
    /\ r.dispatched = << 0 >>
    /\ r.action_results = << [action_index |-> 0, status |-> "SUCCESS"] >>
    /\ r.result.status = "FAILED"

\* the worker waits in the confirmation gate for action r.i or has just left
\* it, or is in the delay between two attempts or has just left it
BeforeAttempt(r) ==
  \/ r.pc \in {"wait_conf", "conf_check", "retry_sleep"}
  \/ (r.pc = "retry_loop" /\ (NeedsOf(r, r.i) \/ r.retry_count >= 1))

\* C38: a worker that is paused (and neither resumed nor stopped) while it
\* waits in the confirmation gate, or in the delay between two attempts,
\* dispatches nothing: the approved action and the remaining attempts wait
\* for resume().
C38_PauseHoldsBeforeAttempt ==
  [][\A w \in WorkerIds :
       LET r == workers[w] IN
       (PausedNotStopped(r) /\ BeforeAttempt(r) /\ PausedNotStopped(workers'[w]))
         => workers'[w].dispatched = r.dispatched]_vars

\* C39: every per-action result has status SUCCESS or FAILED; every
\* TaskExecutionResult has status SUCCESS, FAILED or CANCELLED, and it is
\* CANCELLED exactly when should_stop is set at the moment it is computed.
C39_StatusDomainsClosed ==
  /\ [](\A w \in WorkerIds :
         LET r == workers[w] IN
         /\ \A k \in DOMAIN r.outcomes : r.outcomes[k] \in {"SUCCESS", "FAILED"}
         /\ \A k \in DOMAIN r.action_results :
              r.action_results[k].status \in {"SUCCESS", "FAILED"}
         /\ r.result # NoResult =>
              /\ r.result.status \in {"SUCCESS", "FAILED", "CANCELLED"}
              /\ \A k \in DOMAIN r.result.action_results :
                   r.result.action_results[k].status \in {"SUCCESS", "FAILED"})
  /\ [][\A w \in WorkerIds :
         (workers[w].pc = "finalize" /\ workers'[w].pc = "done") =>
           (workers'[w].result.status = "CANCELLED" <=> workers[w].should_stop)]_vars

C39_Witness ==
  \E w \in WorkerIds :
    LET r == workers[w] IN
    /\ r.pc = "done"
    /\ r.result.status = "CANCELLED"
    /\ Len(r.action_plan) = 2
    /\ r.result.action_results
         = << [action_index |-> 0, status |-> "FAILED"], [action_index |-> 1, status |-> "SUCCESS"] >>

====
